---- MODULE Spec2Model ----
(***************************************************************************)
(* co-curl (src/co_curl.cpp): download one remote file as byte ranges      *)
(* written to part files, verify the parts, merge them, clean up.          *)
(*                                                                         *)
(* One run of main() is modelled: option parsing, the size probe, the      *)
(* split computation, the download loop (one thread per OpenMP team        *)
(* member, one step per attempt of download()), check_files, merge_files   *)
(* (one step per part) and the final removal of parts or output.           *)
(***************************************************************************)
EXTENDS Integers, Sequences, FiniteSets, TLC

\* ---------------------------------------------------------------------------
\* Program constants
\* ---------------------------------------------------------------------------
DEFAULT_NUM_THREADS == 8
MIN_FILE_SIZE_FOR_PARALLEL == 1000
NUM_TRY_DOWNLOAD == 5
\* check_files: the 1E6 added to the on-disk size
TOLERANCE == 1000000
\* main: the factor of "chunk_size *= 1E6"
MEGA == 1000000
\* main: "if( chunk_size < 10 )" of option -cs
MIN_CHUNK_OPTION == 10

\* ---------------------------------------------------------------------------
\* Bounds of the model
\* ---------------------------------------------------------------------------
\* options on one command line
MaxArgs == 2
\* the download loop is explored for plans of at most MaxParts parts
MaxParts == 3
\* failures injected by the environment in one run (fopen, transfer, open)
MaxFaults == 5

\* ---------------------------------------------------------------------------
\* Files.  A file's content is a sequence of segments; a segment is a run of
\* bytes lo..hi of one origin: the remote resource ("url") or a file left on
\* disk by an earlier run ("old", id = the index of the part it was left as).
\* The disk maps the paths that exist to their content.  Path OUT is the
\* output file, path i >= 0 is "<output>.part<i>".
\* ---------------------------------------------------------------------------
OUT == -1

Seg(src, id, lo, hi) == [src |-> src, id |-> id, lo |-> lo, hi |-> hi]

RECURSIVE Size(_)
Size(data) ==
    IF data = <<>> THEN 0
    ELSE (Head(data).hi - Head(data).lo + 1) + Size(Tail(data))

Exists(d, path) == path \in DOMAIN d

\* fopen(path, "wb") / std::ofstream(path): create or truncate
Truncate(d, path) == [q \in DOMAIN d \cup {path} |-> IF q = path THEN <<>> ELSE d[q]]

WriteFile(d, path, data) ==
    [q \in DOMAIN d \cup {path} |-> IF q = path THEN data ELSE d[q]]

\* std::remove(path): no effect when the path does not exist
Remove(d, path) == [q \in DOMAIN d \ {path} |-> d[q]]

RemoveAll(d, paths) == [q \in DOMAIN d \ paths |-> d[q]]

\* ---------------------------------------------------------------------------
\* Inputs
\* ---------------------------------------------------------------------------
\* The raw integer arguments given to the options -nth, -np, -cs and -s.
NumThreadArgs == {0, 2}
NumPartArgs == {0, -3, 101}
ChunkSizeArgs == {5, 10}
SinglePartArgs == {1}

\* What the server answers to the probe: whether the transfer succeeded, the
\* content length it reports and its status code.  len is also the true size
\* of the resource served to ranged GETs.
Servers ==
    {[ok |-> TRUE, len |-> n, code |-> 200] : n \in {500, 1003, 20000000, 25000000}}
    \cup {[ok |-> TRUE, len |-> 0, code |-> 200],
          [ok |-> TRUE, len |-> 1003, code |-> 404],
          [ok |-> FALSE, len |-> 0, code |-> 0]}

\* Sizes of the files an earlier run may have left behind.
StaleSizes == {0, 1}

StaleData(id, n) == IF n = 0 THEN <<>> ELSE <<Seg("old", id, 0, n - 1)>>

\* Part indices that may hold a file left by an earlier run.
StaleParts == {0, 1}

StaleDisks == UNION { [ps -> StaleSizes] : ps \in SUBSET StaleParts }

\* the disk before the run: the stale parts and, with out, an old output file
InitDisk(sizes, out) ==
    [q \in DOMAIN sizes \cup (IF out THEN {OUT} ELSE {}) |->
        IF q = OUT THEN StaleData(OUT, 1) ELSE StaleData(q, sizes[q])]

\* ---------------------------------------------------------------------------
\* State
\* ---------------------------------------------------------------------------
VARIABLES
    argi,         \* number of the next option to parse
    asked_mode,   \* the mode the options selected (mode is overwritten after the probe)
    split,        \* the branch the split took: "count", "size", "both"; "none" before
    last_split,   \* the last -np or -cs option parsed, until the split uses it:
                  \* <<name, value, whether the other of the two was set>>; <<>> if none
    num_thread, num_part, chunk_size, mode, part_index, normal_exit,
    server,       \* the remote side
    file_size,    \* result of get_file_size, 0 before the probe
    disk,         \* the files that exist, with their content
    pc,           \* position of main()
    exit_code,    \* process status once pc = "exit", -1 before
    threads,      \* per thread: the download() calls left to make, and the loop counter i
    log,          \* per path handed to download(): attempts made, last outcome, returned
    requested,    \* the ranged GETs issued: <<path, start, end>>
    probes,       \* number of size probes issued
    faults,       \* failures injected so far
    part_status,  \* result of check_files, 2 before it ran
    merge_i,      \* loop counter of merge_files
    out_good      \* stream state of output_file in merge_files (no failbit)

vars == <<argi, asked_mode, split, last_split, num_thread, num_part, chunk_size, mode, part_index,
          normal_exit, server, file_size, disk, pc, exit_code, threads, log,
          requested, probes, faults, part_status, merge_i, out_good>>

options == <<num_thread, num_part, chunk_size, mode, part_index>>
env == <<asked_mode, split, last_split, server>>
dl == <<threads, log, requested>>
mg == <<part_status, merge_i, out_good>>

Abs(v) == IF v < 0 THEN -v ELSE v
Min(a, b) == IF a < b THEN a ELSE b

Init ==
    /\ argi = 1
    /\ asked_mode = 0
    /\ split = "none"
    /\ last_split = <<>>
    /\ num_thread = DEFAULT_NUM_THREADS
    /\ num_part = -1
    /\ chunk_size = -1
    /\ mode = 0
    /\ part_index = -1
    /\ normal_exit = TRUE
    /\ server = [ok |-> FALSE, len |-> 0, code |-> 0]
    /\ file_size = 0
    /\ \E sizes \in StaleDisks, out \in BOOLEAN : disk = InitDisk(sizes, out)
    /\ pc = "args"
    /\ exit_code = -1
    /\ threads = <<>>
    /\ log = <<>>
    /\ requested = {}
    /\ probes = 0
    /\ faults = 0
    /\ part_status = 2
    /\ merge_i = 0
    /\ out_good = TRUE

\* ---------------------------------------------------------------------------
\* main: option parsing
\* ---------------------------------------------------------------------------
Parsing ==
    /\ pc = "args"
    /\ argi <= MaxArgs

\* num_thread = abs(atoi); 0 falls back to the default
NumThreadOf(v) == IF Abs(v) = 0 THEN DEFAULT_NUM_THREADS ELSE Abs(v)

\* num_part = abs(atoi); 0 becomes "unset"
NumPartOf(v) == IF Abs(v) = 0 THEN -1 ELSE Abs(v)

\* chunk_size = abs(atoll); below 10 becomes "unset"
ChunkSizeOf(v) == IF Abs(v) < MIN_CHUNK_OPTION THEN -1 ELSE Abs(v)

OptNumThread ==
    /\ Parsing
    /\ \E v \in NumThreadArgs :
        num_thread' = NumThreadOf(v)
    /\ argi' = argi + 1
    /\ UNCHANGED <<num_part, chunk_size, mode, part_index, normal_exit, env,
                   file_size, disk, pc, exit_code, dl, probes, faults, mg>>

\* -np leaving a chunk size given earlier in place
ChunkSizeKept(cs) == cs

\* -np unsets the chunk size
ChunkSizeAfterNumPart(cs) == -1

\* -cs unsets the part count
NumPartAfterChunkSize(np) == -1

OptNumPart ==
    /\ Parsing
    /\ \E v \in NumPartArgs :
        /\ num_part' = NumPartOf(v)
        /\ last_split' = <<"np", v, chunk_size > 0>>
    /\ chunk_size' = ChunkSizeAfterNumPart(chunk_size)
    /\ argi' = argi + 1
    /\ UNCHANGED <<num_thread, mode, part_index, normal_exit, asked_mode, split, server,
                   file_size, disk, pc, exit_code, dl, probes, faults, mg>>

OptChunkSize ==
    /\ Parsing
    /\ \E v \in ChunkSizeArgs :
        /\ chunk_size' = ChunkSizeOf(v)
        /\ last_split' = <<"cs", v, num_part > 0>>
    /\ num_part' = NumPartAfterChunkSize(num_part)
    /\ argi' = argi + 1
    /\ UNCHANGED <<num_thread, mode, part_index, normal_exit, asked_mode, split, server,
                   file_size, disk, pc, exit_code, dl, probes, faults, mg>>

OptSinglePart ==
    /\ Parsing
    /\ mode' = 1
    /\ \E v \in SinglePartArgs :
        part_index' = Abs(v)
    /\ argi' = argi + 1
    /\ UNCHANGED <<num_thread, num_part, chunk_size, normal_exit, env,
                   file_size, disk, pc, exit_code, dl, probes, faults, mg>>

OptMerge ==
    /\ Parsing
    /\ mode' = 2
    /\ argi' = argi + 1
    /\ UNCHANGED <<num_thread, num_part, chunk_size, part_index, normal_exit, env,
                   file_size, disk, pc, exit_code, dl, probes, faults, mg>>

\* all options parsed, url present: go on to the probe
ArgsDone ==
    /\ pc = "args"
    /\ pc' = "probe"
    /\ asked_mode' = mode
    /\ UNCHANGED <<argi, options, normal_exit, split, last_split, server, file_size,
                   disk, exit_code, dl, probes, faults, mg>>

\* ---------------------------------------------------------------------------
\* get_file_size and the threshold test of main
\* ---------------------------------------------------------------------------
get_file_size(srv) ==
    IF srv.ok
    THEN LET s1 == IF srv.len = 0 THEN -1 ELSE srv.len
         IN IF srv.code >= 400 THEN -1 ELSE s1
    ELSE -1

\* the threshold test left out
BelowThresholdNever(S) == S < 0

\* the size below which the file is fetched whole by one worker
BelowThreshold(S) == S < MIN_FILE_SIZE_FOR_PARALLEL

Probe ==
    /\ pc = "probe"
    /\ probes' = probes + 1
    /\ server' \in Servers
    /\ file_size' = get_file_size(server')
    /\ IF file_size' <= 0
       THEN /\ pc' = "exit"
            /\ exit_code' = 1
            /\ UNCHANGED <<mode, chunk_size, num_part>>
       ELSE /\ pc' = "plan"
            /\ exit_code' = exit_code
            /\ IF BelowThreshold(file_size')
               THEN mode' = -1 /\ chunk_size' = -1 /\ num_part' = 1
               ELSE UNCHANGED <<mode, chunk_size, num_part>>
    /\ UNCHANGED <<argi, num_thread, part_index, normal_exit, asked_mode, split,
                   last_split, disk, dl, faults, mg>>

\* ---------------------------------------------------------------------------
\* main: the split
\* ---------------------------------------------------------------------------
\* the part count used when chunk_size is unset
PlanNumPartByCount(np, nth) == IF np < 0 THEN nth ELSE np

\* the chunk size when chunk_size is unset
PlanChunkByCount(S, np) == S \div np

\* -cs given: the chunk size in bytes, and the part count
PlanChunkBySize(cs) == cs * MEGA

\* the part that takes the remainder forgotten
PlanNumPartBySizeNoExtra(S, cs) == S \div cs

PlanNumPartBySize(S, cs) == S \div cs + 1

Plan ==
    /\ pc = "plan"
    /\ IF chunk_size < 0
       THEN /\ num_part' = PlanNumPartByCount(num_part, num_thread)
            /\ chunk_size' = PlanChunkByCount(file_size, num_part')
            /\ split' = "count"
       ELSE IF num_part < 0
            THEN /\ chunk_size' = PlanChunkBySize(chunk_size)
                 /\ num_part' = PlanNumPartBySize(file_size, chunk_size')
                 /\ split' = "size"
            ELSE /\ UNCHANGED <<chunk_size, num_part>>
                 /\ split' = "both"
    /\ num_thread' = IF mode = 0 /\ num_part' < num_thread THEN num_part' ELSE num_thread
    /\ IF part_index > num_part' - 1
       THEN pc' = "exit" /\ exit_code' = 1
       ELSE pc' = "download" /\ exit_code' = exit_code
    /\ last_split' = <<>>
    /\ UNCHANGED <<argi, mode, part_index, normal_exit, asked_mode, server,
                   file_size, disk, dl, probes, faults, mg>>

\* ---------------------------------------------------------------------------
\* main: the byte range of part i (inclusive)
\* ---------------------------------------------------------------------------
RangeStart(i, cs) == i * cs

\* the last part's end not forced to the end of the resource
RangeEndNoRemainder(i, np, S, cs) == RangeStart(i, cs) + cs - 1

RangeEnd(i, np, S, cs) == IF i = np - 1 THEN S - 1 ELSE RangeStart(i, cs) + cs - 1

Job(path, start, end) == [path |-> path, start |-> start, end |-> end]

PartJob(i) ==
    Job(i, RangeStart(i, chunk_size), RangeEnd(i, num_part, file_size, chunk_size))

\* ---------------------------------------------------------------------------
\* "#pragma omp parallel for": the iterations 0..n-1 are dealt to the team of
\* w threads in contiguous blocks (static schedule); thread t (0-based) runs
\* its block in order.
\* ---------------------------------------------------------------------------
BlockLen(t, w, n) == n \div w + (IF t < n % w THEN 1 ELSE 0)

\* the blocks placed as if every block had the short length
BlockStartNoRemainder(t, w, n) == t * (n \div w)

BlockStart(t, w, n) == t * (n \div w) + Min(t, n % w)

Thread(jobs) == [jobs |-> jobs, i |-> 0]

Team(w, n) ==
    [t \in 1 .. w |->
        Thread([k \in 1 .. BlockLen(t - 1, w, n) |-> PartJob(BlockStart(t - 1, w, n) + k - 1)])]

NewLog(paths) == [q \in paths |-> [n |-> 0, last |-> "none", done |-> FALSE]]

\* mode -1: download(output_filename, 0, file_size-1) in the main thread
DownloadSmall ==
    /\ pc = "download"
    /\ mode = -1
    /\ threads' = <<Thread(<<Job(OUT, 0, file_size - 1)>>)>>
    /\ log' = NewLog({OUT})
    /\ pc' = "workers"
    /\ UNCHANGED <<argi, options, normal_exit, env, file_size, disk, exit_code,
                   requested, probes, faults, mg>>

\* mode 0: the parallel loop over all parts
DownloadAll ==
    /\ pc = "download"
    /\ mode = 0
    /\ num_part <= MaxParts
    /\ threads' = Team(num_thread, num_part)
    /\ log' = NewLog(0 .. num_part - 1)
    /\ pc' = "workers"
    /\ UNCHANGED <<argi, options, normal_exit, env, file_size, disk, exit_code,
                   requested, probes, faults, mg>>

\* mode 1: the part part_index alone, in the main thread
DownloadSingle ==
    /\ pc = "download"
    /\ mode = 1
    /\ threads' = <<Thread(<<PartJob(part_index)>>)>>
    /\ log' = NewLog({part_index})
    /\ pc' = "workers"
    /\ UNCHANGED <<argi, options, normal_exit, env, file_size, disk, exit_code,
                   requested, probes, faults, mg>>

\* ---------------------------------------------------------------------------
\* download(): one step per iteration of its retry loop
\* ---------------------------------------------------------------------------
Busy(t) == t \in DOMAIN threads /\ threads[t].jobs # <<>>

CurJob(t) == Head(threads[t].jobs)

\* download() returns: the thread moves on to its next iteration
Returned(t) == [threads EXCEPT ![t] = Thread(Tail(@.jobs))]

\* "continue" / end of the loop body after a failure: ++i, and the loop ends
\* when i reaches NUM_TRY_DOWNLOAD
Retry(t) ==
    IF threads[t].i + 1 < NUM_TRY_DOWNLOAD
    THEN [threads EXCEPT ![t].i = @ + 1]
    ELSE Returned(t)

LoopEnds(t) == threads[t].i + 1 >= NUM_TRY_DOWNLOAD

Logged(path, outcome, returned) ==
    [log EXCEPT ![path] = [n |-> @.n + 1, last |-> outcome, done |-> returned]]

\* What a transfer that ends with CURLE_OK and a status below 400 leaves in
\* the file: the bytes of the range; a range whose end is below its start is
\* no valid Range header, and a server that ignores it sends the whole resource.
Body(start, end, S) ==
    IF start <= end
    THEN <<Seg("url", 0, start, Min(end, S - 1))>>
    ELSE <<Seg("url", 0, 0, S - 1)>>

\* curl_easy_init() fails: no attempt is made
DownloadNoCurl(t) ==
    /\ pc = "workers"
    /\ Busy(t)
    /\ threads[t].i = 0
    /\ log[CurJob(t).path].n = 0
    /\ faults < MaxFaults
    /\ faults' = faults + 1
    /\ threads' = Returned(t)
    /\ log' = [log EXCEPT ![CurJob(t).path].last = "nocurl", ![CurJob(t).path].done = TRUE]
    /\ UNCHANGED <<argi, options, normal_exit, env, file_size, disk, pc, exit_code,
                   requested, probes, mg>>

\* fopen fails: message, continue
AttemptOpenFails(t) ==
    /\ pc = "workers"
    /\ Busy(t)
    /\ faults < MaxFaults
    /\ faults' = faults + 1
    /\ threads' = Retry(t)
    /\ log' = Logged(CurJob(t).path, "open", LoopEnds(t))
    /\ UNCHANGED <<argi, options, normal_exit, env, file_size, disk, pc, exit_code,
                   requested, probes, mg>>

\* fopen succeeds, curl_easy_perform returns an error: the file is removed
AttemptTransferFails(t) ==
    /\ pc = "workers"
    /\ Busy(t)
    /\ faults < MaxFaults
    /\ faults' = faults + 1
    /\ requested' = requested \cup {<<CurJob(t).path, CurJob(t).start, CurJob(t).end>>}
    /\ disk' = Remove(Truncate(disk, CurJob(t).path), CurJob(t).path)
    /\ threads' = Retry(t)
    /\ log' = Logged(CurJob(t).path, "transfer", LoopEnds(t))
    /\ UNCHANGED <<argi, options, normal_exit, env, file_size, pc, exit_code,
                   probes, mg>>

\* CURLE_OK with a status of 400 or more: the file is removed, then "break"
AttemptHttpError(t) ==
    /\ pc = "workers"
    /\ Busy(t)
    /\ faults < MaxFaults
    /\ faults' = faults + 1
    /\ requested' = requested \cup {<<CurJob(t).path, CurJob(t).start, CurJob(t).end>>}
    /\ disk' = Remove(Truncate(disk, CurJob(t).path), CurJob(t).path)
    /\ threads' = Returned(t)
    /\ log' = Logged(CurJob(t).path, "http", TRUE)
    /\ UNCHANGED <<argi, options, normal_exit, env, file_size, pc, exit_code,
                   probes, mg>>

\* CURLE_OK with a status below 400: the body stays in the file, "break"
AttemptSucceeds(t) ==
    /\ pc = "workers"
    /\ Busy(t)
    /\ requested' = requested \cup {<<CurJob(t).path, CurJob(t).start, CurJob(t).end>>}
    /\ disk' = WriteFile(disk, CurJob(t).path,
                         Body(CurJob(t).start, CurJob(t).end, server.len))
    /\ threads' = Returned(t)
    /\ log' = Logged(CurJob(t).path, "ok", TRUE)
    /\ UNCHANGED <<argi, options, normal_exit, env, file_size, pc, exit_code,
                   probes, faults, mg>>

\* every thread has run its iterations: the loop is left.  Modes -1 and 1 end
\* here with "return (normal_exit) ? 0:1".
\* the loop left as soon as one worker is idle
SomeReturned == \E t \in DOMAIN threads : ~Busy(t)

\* the loop never left: the barrier waits for a worker that is still busy
AllBusy == \A t \in DOMAIN threads : Busy(t)

\* the end of the parallel loop: every worker has run all its iterations
AllReturned == \A t \in DOMAIN threads : ~Busy(t)

Join ==
    /\ pc = "workers"
    /\ AllReturned
    /\ IF mode = 0
       THEN pc' = "check" /\ exit_code' = exit_code
       ELSE pc' = "exit" /\ exit_code' = (IF normal_exit THEN 0 ELSE 1)
    /\ UNCHANGED <<argi, options, normal_exit, env, file_size, disk, dl, probes,
                   faults, mg>>

\* ---------------------------------------------------------------------------
\* check_files
\* ---------------------------------------------------------------------------
\* One iteration of the loop for part i, all_present being acc so far.
\* fs::is_empty and fs::file_size throw filesystem_error for a path that does
\* not exist; nothing catches it.
\* the size test left out
CheckPartNoSizeTest(d, i, acc, expected) == IF Size(d[i]) = 0 THEN 0 ELSE acc

CheckPart(d, i, acc, expected) ==
    LET a1 == IF Size(d[i]) = 0 THEN 0 ELSE acc
    IN IF Size(d[i]) + TOLERANCE < expected THEN -1 ELSE a1

RECURSIVE CheckLoop(_, _, _, _, _, _)
CheckLoop(d, i, acc, np, cs, last) ==
    IF i >= np THEN [threw |-> FALSE, status |-> acc]
    ELSE IF ~Exists(d, i) THEN [threw |-> TRUE, status |-> acc]
    ELSE CheckLoop(d, i + 1, CheckPart(d, i, acc, IF i # np - 1 THEN cs ELSE last),
                   np, cs, last)

\* a part that does not exist taken for an empty one, nothing thrown
check_filesNoThrow(d, np, cs, last) ==
    CheckLoop([q \in DOMAIN d \cup (0 .. np - 1) |-> IF q \in DOMAIN d THEN d[q] ELSE <<>>],
              0, 1, np, cs, last)

check_files(d, np, cs, last) == CheckLoop(d, 0, 1, np, cs, last)

\* the last_part_size argument main passes
LastPartSize == file_size - (num_part - 1) * chunk_size

Verdict == check_files(disk, num_part, chunk_size, LastPartSize)

\* check_files throws: std::terminate, the process is aborted (SIGABRT)
CheckThrows ==
    /\ \/ pc = "check"
       \/ pc = "download" /\ mode = 2
    /\ Verdict.threw
    /\ pc' = "exit"
    /\ exit_code' = 134
    /\ UNCHANGED <<argi, options, normal_exit, env, file_size, disk, dl, probes,
                   faults, mg>>

\* check_files returns; 0 skips the merge
Check ==
    /\ \/ pc = "check"
       \/ pc = "download" /\ mode = 2
    /\ ~Verdict.threw
    /\ part_status' = Verdict.status
    /\ IF part_status' # 0
       THEN pc' = "merge" /\ normal_exit' = normal_exit
       ELSE pc' = "cleanup" /\ normal_exit' = FALSE
    /\ UNCHANGED <<argi, options, env, file_size, disk, exit_code, dl, probes,
                   faults, merge_i, out_good>>

\* ---------------------------------------------------------------------------
\* merge_files
\* ---------------------------------------------------------------------------
\* "output_file << part_file.rdbuf()": the part's bytes are appended while the
\* stream is good; inserting no character sets failbit, and a stream that is
\* not good inserts nothing.
Inserted(good, data) == IF good THEN data ELSE <<>>

StillGood(good, data) == good /\ data # <<>>

\* the output file cannot be created: return false
MergeCreateFails ==
    /\ pc = "merge"
    /\ faults < MaxFaults
    /\ faults' = faults + 1
    /\ normal_exit' = FALSE
    /\ pc' = "cleanup"
    /\ UNCHANGED <<argi, options, env, file_size, disk, exit_code, dl, probes, mg>>

\* std::ofstream output_file(output_filename): created or truncated
MergeCreate ==
    /\ pc = "merge"
    /\ disk' = Truncate(disk, OUT)
    /\ merge_i' = 0
    /\ out_good' = TRUE
    /\ pc' = "merging"
    /\ UNCHANGED <<argi, options, normal_exit, env, file_size, exit_code, dl,
                   probes, faults, part_status>>

\* part merge_i is opened and appended
MergePart ==
    /\ pc = "merging"
    /\ merge_i < num_part
    /\ Exists(disk, merge_i)
    /\ disk' = WriteFile(disk, OUT, disk[OUT] \o Inserted(out_good, disk[merge_i]))
    /\ out_good' = StillGood(out_good, disk[merge_i])
    /\ merge_i' = merge_i + 1
    /\ UNCHANGED <<argi, options, normal_exit, env, file_size, pc, exit_code, dl,
                   probes, faults, part_status>>

\* part merge_i cannot be opened: normal_exit = false, break, close, return
MergeOpenFails ==
    /\ pc = "merging"
    /\ merge_i < num_part
    /\ \/ ~Exists(disk, merge_i)
       \/ faults < MaxFaults
    /\ faults' = IF Exists(disk, merge_i) THEN faults + 1 ELSE faults
    /\ normal_exit' = FALSE
    /\ pc' = "cleanup"
    /\ UNCHANGED <<argi, options, env, file_size, disk, exit_code, dl, probes, mg>>

\* the loop ran to its end: close, return normal_exit
MergeDone ==
    /\ pc = "merging"
    /\ merge_i >= num_part
    /\ pc' = "cleanup"
    /\ UNCHANGED <<argi, options, normal_exit, env, file_size, disk, exit_code,
                   dl, probes, faults, mg>>

\* ---------------------------------------------------------------------------
\* main: removal of the parts or of the output, and the exit status
\* ---------------------------------------------------------------------------
PartPaths == 0 .. num_part - 1

\* the removal loop stopping one part early
CleanedDiskKeepsLast(d, ok, status, paths) ==
    IF ok
    THEN (IF status = 1 THEN RemoveAll(d, {i \in paths : i + 1 \in paths}) ELSE d)
    ELSE Remove(d, OUT)

\* the output left in place after a merge that failed
CleanedDiskKeepsOutput(d, ok, status, paths) ==
    IF ok
    THEN (IF status = 1 THEN RemoveAll(d, paths) ELSE d)
    ELSE d

\* the parts removed after any merge that succeeded
CleanedDiskAnyVerdict(d, ok, status, paths) ==
    IF ok
    THEN RemoveAll(d, paths)
    ELSE Remove(d, OUT)

\* the files left by the removal step, ok being normal_exit
CleanedDisk(d, ok, status, paths) ==
    IF ok
    THEN (IF status = 1 THEN RemoveAll(d, paths) ELSE d)
    ELSE Remove(d, OUT)

Cleanup ==
    /\ pc = "cleanup"
    /\ disk' = CleanedDisk(disk, normal_exit, part_status, PartPaths)
    /\ pc' = "exit"
    /\ exit_code' = (IF normal_exit THEN 0 ELSE 1)
    /\ UNCHANGED <<argi, options, normal_exit, env, file_size, dl, probes,
                   faults, mg>>

\* ---------------------------------------------------------------------------
\* Properties
\* ---------------------------------------------------------------------------
Planned == pc \notin {"args", "probe", "plan"} /\ split # "none"

PartStart(i) == RangeStart(i, chunk_size)
PartEnd(i) == RangeEnd(i, num_part, file_size, chunk_size)

\* The ranges of parts 0..num_part-1 are consecutive intervals that start at
\* byte 0 and end at byte file_size-1: as sets of bytes they are pairwise
\* disjoint and their union is [0, file_size-1].
Consecutive ==
    /\ num_part >= 1
    /\ PartStart(0) = 0
    /\ \A i \in 0 .. num_part - 2 : PartStart(i + 1) = PartEnd(i) + 1
    /\ PartEnd(num_part - 1) = file_size - 1
    /\ \A i \in 0 .. num_part - 1 : PartStart(i) <= PartEnd(i) + 1

\* every GET asks for the planned range of its part
RequestsFollowPlan ==
    \A r \in requested : r[1] >= 0 => r[2] = PartStart(r[1]) /\ r[3] = PartEnd(r[1])

\* C1: in part-count mode (no chunk size given), for a total size of at least
\* MIN_FILE_SIZE_FOR_PARALLEL and a part count P >= 1 with floor(S/P) >= 10,
\* the ranges of parts 0..P-1 are start_i = i*floor(S/P), end_i = start_i +
\* floor(S/P) - 1 for i < P-1 and S-1 for the last part; they are non-empty,
\* pairwise disjoint, cover [0, S-1] exactly, and the download loop is handed
\* exactly the P parts 0..P-1 and requests exactly these ranges.
C1_PartCountPartition ==
    (Planned /\ split = "count" /\ file_size >= MIN_FILE_SIZE_FOR_PARALLEL
        /\ num_part >= 1 /\ file_size \div num_part >= 10)
    => /\ chunk_size = file_size \div num_part
       /\ Consecutive
       /\ \A i \in 0 .. num_part - 1 : PartStart(i) <= PartEnd(i)
       /\ \A i \in 0 .. num_part - 2 : PartEnd(i) = PartStart(i) + chunk_size - 1
       /\ RequestsFollowPlan
       /\ (mode = 0 /\ pc = "workers") => DOMAIN log = 0 .. num_part - 1

\* C1 witness: three parts of a 1003-byte resource (remainder 1), all requested
C1_Witness ==
    /\ Planned /\ split = "count" /\ mode = 0
    /\ file_size = 1003 /\ num_part = 3
    /\ Cardinality(requested) = 3

\* C8: in chunk-size mode with S >= MIN_FILE_SIZE_FOR_PARALLEL the plan has
\* P = floor(S/C) + 1 parts; parts 0..P-2 cover C bytes each, the last part
\* covers [(P-1)*C, S-1] (no byte when C divides S); the ranges are pairwise
\* disjoint and their union is [0, S-1].
C8_ChunkSizePartition ==
    (Planned /\ split = "size" /\ file_size >= MIN_FILE_SIZE_FOR_PARALLEL)
    => /\ num_part = file_size \div chunk_size + 1
       /\ Consecutive
       /\ \A i \in 0 .. num_part - 2 : PartEnd(i) - PartStart(i) + 1 = chunk_size
       /\ PartStart(num_part - 1) = (num_part - 1) * chunk_size
       /\ RequestsFollowPlan

\* C8 witness: 25,000,000 bytes in chunks of 10,000,000: three parts requested
C8_Witness ==
    /\ Planned /\ split = "size" /\ mode = 0
    /\ file_size = 25000000 /\ num_part = 3
    /\ Cardinality(requested) = 3

\* C9 (as claimed): whenever the part count is <= 0 or the chunk size computed
\* in part-count mode is below 10 bytes, the run has ended with a failure
\* status and has requested no range.
C9_InvalidSplitAborts ==
    (Planned /\ split = "count" /\ (num_part <= 0 \/ chunk_size < 10))
    => pc = "exit" /\ exit_code # 0 /\ requested = {}

\* ---------------------------------------------------------------------------
\* download(): retry bound and cleanup
\* ---------------------------------------------------------------------------
\* C2 (as claimed): download() makes at most NUM_TRY_DOWNLOAD attempts for
\* its part, and when it has returned with every attempt failed, no file
\* exists at the part's path.
C2_RetryBoundNoFile ==
    \A q \in DOMAIN log :
        /\ log[q].n <= NUM_TRY_DOWNLOAD
        /\ (log[q].done /\ log[q].n >= 1 /\ log[q].last # "ok") => ~Exists(disk, q)

\* C3 (as claimed): a failed attempt (file not opened, transfer error, status
\* of 400 or more) leaves no partially written file and is followed by another
\* attempt while fewer than NUM_TRY_DOWNLOAD were made: download() returns
\* after fewer attempts only when its last attempt succeeded.
C3_FailureIsRetried ==
    \A q \in DOMAIN log :
        /\ log[q].last \in {"transfer", "http"} => ~Exists(disk, q)
        /\ (log[q].done /\ log[q].n >= 1 /\ log[q].n < NUM_TRY_DOWNLOAD)
               => log[q].last = "ok"

\* ---------------------------------------------------------------------------
\* check_files, merge_files, removal
\* ---------------------------------------------------------------------------
\* the byte count part i is expected to hold
Expected(i) == IF i # num_part - 1 THEN chunk_size ELSE LastPartSize

\* main is about to call check_files
AtCheck == pc = "check" \/ (pc = "download" /\ mode = 2)

\* check_files has returned and the parts are as it saw them
Checked == part_status # 2 /\ pc \in {"merge", "merging", "cleanup"}

SomeMissingOrEmpty == \E i \in PartPaths : ~Exists(disk, i) \/ Size(disk[i]) = 0

SomeUndersized ==
    \E i \in PartPaths : Exists(disk, i) /\ Size(disk[i]) + TOLERANCE < Expected(i)

\* C4 (as claimed): the verdict check_files returns is Missing (0) when a
\* part is missing or empty, whatever the sizes of the parts; otherwise it is
\* PresentButUndersized (-1) exactly when a part is more than 1 MB below its
\* expected size, and Complete (1) when none is.
C4_VerdictPrecedence ==
    Checked =>
        part_status = (IF SomeMissingOrEmpty THEN 0
                       ELSE IF SomeUndersized THEN -1 ELSE 1)

\* C5: when a part file does not exist at the time main calls check_files
\* (after the download loop or in merge-only mode), the next step ends the
\* run with a non-zero status and changes no file: nothing is merged, no part
\* is deleted, no output file is created.
C5_MissingPartStopsRun ==
    [][(AtCheck /\ \E i \in PartPaths : ~Exists(disk, i))
        => (pc' = "exit" /\ exit_code' # 0 /\ exit_code' # -1 /\ disk' = disk)]_vars

\* C5 witness: a full download whose part 1 failed ends at the check
C5_Witness ==
    /\ pc = "exit" /\ exit_code = 134
    /\ asked_mode = 0 /\ mode = 0
    /\ 1 \in DOMAIN log /\ log[1].last = "http"
    /\ ~Exists(disk, 1) /\ ~Exists(disk, OUT)

\* the step deletes a part file in main's removal loop
DeletesParts ==
    pc = "cleanup" /\ \E i \in PartPaths : Exists(disk, i) /\ ~Exists(disk', i)

RECURSIVE ConcatParts(_, _, _)
ConcatParts(d, i, np) == IF i >= np THEN <<>> ELSE d[i] \o ConcatParts(d, i + 1, np)

\* C6 (as claimed): whenever the run deletes the part files, every part held
\* exactly its expected byte count and the output holds exactly file_size bytes.
C6_DeleteOnlyAfterExactMerge ==
    [][DeletesParts
        => /\ \A i \in PartPaths : Exists(disk, i) /\ Size(disk[i]) = Expected(i)
           /\ Exists(disk, OUT) /\ Size(disk[OUT]) = file_size]_vars

\* C6 (amended): whenever the run deletes the part files, check_files
\* returned 1 and the merge succeeded: every part exists, is not empty and is
\* at most 1 MB below its expected byte count, and the output holds the
\* concatenation of the parts, so as many bytes as the parts hold together.
C6_DeleteOnlyAfterCompleteVerdict ==
    [][DeletesParts
        => /\ part_status = 1 /\ normal_exit
           /\ \A i \in PartPaths :
                /\ Exists(disk, i)
                /\ Size(disk[i]) > 0
                /\ Size(disk[i]) + TOLERANCE >= Expected(i)
           /\ Exists(disk, OUT)
           /\ disk[OUT] = ConcatParts(disk, 0, num_part)
           /\ Size(disk[OUT]) = Size(ConcatParts(disk, 0, num_part))]_vars

\* C6 witness: the parts of a two-part download are gone after the merge
C6_Witness ==
    /\ pc = "exit" /\ exit_code = 0 /\ mode = 0 /\ num_part = 2
    /\ part_status = 1
    /\ \A i \in PartPaths : ~Exists(disk, i) /\ log[i].last = "ok"
    /\ Exists(disk, OUT) /\ Size(disk[OUT]) = file_size

\* merge_files has returned true
MergeSucceeded == pc = "cleanup" /\ normal_exit /\ part_status \in {1, -1}

\* C7 (as claimed): when merge_files reports success, the output is the
\* concatenation of the parts 0..P-1 in index order.
C7_MergeRoundTrip ==
    MergeSucceeded => Exists(disk, OUT) /\ disk[OUT] = ConcatParts(disk, 0, num_part)

\* C10 (as claimed): a run started in merge-only mode issues no size probe
\* and no ranged GET.
C10_MergeOnlyNoTransfer ==
    asked_mode = 2 => probes = 0 /\ requested = {}

\* ---------------------------------------------------------------------------
\* The exit status of the download modes
\* ---------------------------------------------------------------------------
\* the bytes lo..hi of the resource, as one transfer leaves them
Whole(lo, hi) == <<Seg("url", 0, lo, hi)>>

\* the resource as the merge of the planned parts leaves it
WholeByParts == [k \in 1 .. num_part |-> Seg("url", 0, PartStart(k - 1), PartEnd(k - 1))]

\* the file the run was asked to produce is at its path, in full
ProducedInFull ==
    CASE mode = -1 -> Exists(disk, OUT) /\ disk[OUT] = Whole(0, file_size - 1)
      [] mode = 1  -> /\ Exists(disk, part_index)
                      /\ disk[part_index] = Whole(PartStart(part_index), PartEnd(part_index))
      [] OTHER     -> Exists(disk, OUT) /\ disk[OUT] = WholeByParts

\* a call of download that returned without a transfer that succeeded
SomeDownloadFailed == \E q \in DOMAIN log : log[q].done /\ log[q].last # "ok"

\* C11: a run in a download mode (all the parts, the whole file below the
\* threshold, or one part only) ends with status 0 only if the file it was
\* asked to produce is at its path in full, and never after a download that
\* failed all its attempts.
C11_ExitZeroOnlyWithFile ==
    (pc = "exit" /\ exit_code = 0 /\ asked_mode # 2)
        => ProducedInFull /\ ~SomeDownloadFailed

\* ---------------------------------------------------------------------------
\* The files left by the merge and the removal step
\* ---------------------------------------------------------------------------
\* the run ended after check_files returned Complete and merge_files succeeded
EndedComplete == pc = "exit" /\ part_status = 1 /\ normal_exit

\* C12: after a Complete verdict followed by a successful merge, none of the
\* part files 0..P-1 remains and the destination file exists.
C12_CompleteMergeRemovesParts ==
    EndedComplete
        => /\ \A i \in PartPaths : ~Exists(disk, i)
           /\ Exists(disk, OUT)
           /\ exit_code = 0

C12_Witness ==
    /\ EndedComplete
    /\ num_part >= 2
    /\ Exists(disk, OUT)
    /\ Size(disk[OUT]) = file_size
    /\ \A i \in PartPaths : ~Exists(disk, i)

\* merge_files was called and returned false
MergeFailed == part_status \in {1, -1} /\ ~normal_exit

\* the step leaves every part file that exists as it is
PartsKept == \A i \in PartPaths : Exists(disk, i) => Exists(disk', i) /\ disk'[i] = disk[i]

\* C13: after a merge that failed (a part could not be opened), the
\* destination file does not exist, every part file that existed before the
\* merge still exists unchanged, and the run exits with a non-zero status.
C13_MergeFailureKeepsParts ==
    [][/\ pc \in {"merge", "merging"} => PartsKept
       /\ (pc = "cleanup" /\ MergeFailed)
            => /\ PartsKept
               /\ ~Exists(disk', OUT)
               /\ pc' = "exit"
               /\ exit_code' = 1]_vars

C13_Witness ==
    /\ pc = "exit"
    /\ MergeFailed
    /\ exit_code = 1
    /\ merge_i >= 1
    /\ ~Exists(disk, OUT)
    /\ \A i \in PartPaths : Exists(disk, i)

\* every part is present and not empty, and one is more than 1 MB too small
UndersizedOnly ==
    /\ \A i \in PartPaths : Exists(disk, i) /\ Size(disk[i]) > 0
    /\ SomeUndersized

\* C14: when every part is present and non-empty and at least one is more
\* than 1 MB smaller than expected (PresentButUndersized), the merge still
\* runs, and after it succeeds every part file is retained.
C14_UndersizedMergeKeepsParts ==
    [][/\ (AtCheck /\ UndersizedOnly) => part_status' = -1 /\ pc' = "merge"
       /\ (part_status = -1 /\ pc \in {"merge", "merging"}) => PartsKept
       /\ (part_status = -1 /\ pc = "cleanup" /\ normal_exit)
            => /\ PartsKept
               /\ \A i \in PartPaths : Exists(disk', i)
               /\ Exists(disk', OUT)
               /\ exit_code' = 0]_vars

C14_Witness ==
    /\ pc = "exit"
    /\ part_status = -1
    /\ normal_exit
    /\ num_part >= 2
    /\ UndersizedOnly
    /\ Exists(disk, OUT)
    /\ disk[OUT] = ConcatParts(disk, 0, num_part)

\* ---------------------------------------------------------------------------
\* The file below the threshold
\* ---------------------------------------------------------------------------
\* the probe returned a size below the threshold
Small == pc \notin {"args", "probe"} /\ file_size > 0 /\ file_size < MIN_FILE_SIZE_FOR_PARALLEL

\* a request of the single worker reached the server
SmallTransferred == OUT \in DOMAIN log /\ log[OUT].last \in {"ok", "http", "transfer"}

\* C15: for a probed size below the threshold, whatever -np, -cs (and -nth)
\* were given, the plan is one part, the only range ever requested is
\* [0, S-1] into the output path, by a single worker, and neither check_files
\* nor merge_files runs.
C15_BelowThresholdShortcut ==
    Small
        => /\ mode = -1 /\ num_part = 1
           /\ requested \subseteq {<<OUT, 0, file_size - 1>>}
           /\ SmallTransferred => requested = {<<OUT, 0, file_size - 1>>}
           /\ Len(threads) <= 1
           /\ DOMAIN log \subseteq {OUT}
           /\ part_status = 2
           /\ pc \notin {"check", "merge", "merging", "cleanup"}
           /\ (OUT \in DOMAIN log /\ log[OUT].last = "ok")
                => disk[OUT] = Whole(0, file_size - 1)

C15_Witness ==
    /\ Small
    /\ pc = "exit"
    /\ argi > 1
    /\ asked_mode = 0
    /\ requested = {<<OUT, 0, file_size - 1>>}
    /\ log[OUT].last = "ok"
    /\ disk[OUT] = Whole(0, file_size - 1)

\* ---------------------------------------------------------------------------
\* The two ways to give the split
\* ---------------------------------------------------------------------------
BeforeSplit == pc \in {"args", "probe", "plan"}

LastIs(name) == last_split # <<>> /\ last_split[1] = name

\* C16: after any sequence of -np and -cs options at most one of part count
\* and chunk size is set when the split is computed: -cs unsets a part count
\* given earlier and -np unsets a chunk size given earlier, the last of the two
\* options decides, and the split never sees both.
C16_SplitOptionsExclusive ==
    [][/\ BeforeSplit => ~(num_part > 0 /\ chunk_size > 0)
       /\ (BeforeSplit /\ LastIs("np")) => chunk_size = -1
       /\ (BeforeSplit /\ LastIs("cs")
             /\ (pc = "plan" => file_size >= MIN_FILE_SIZE_FOR_PARALLEL)) => num_part = -1
       /\ (pc = "plan" /\ file_size >= MIN_FILE_SIZE_FOR_PARALLEL)
            => /\ split' # "both"
               /\ (LastIs("np") /\ Abs(last_split[2]) > 0)
                    => split' = "count" /\ num_part' = Abs(last_split[2])
               /\ (LastIs("cs") /\ Abs(last_split[2]) >= MIN_CHUNK_OPTION)
                    => split' = "size" /\ chunk_size' = Abs(last_split[2]) * MEGA]_vars

\* -cs 10 then -np -3: the split is about to run with 3 parts and no chunk size
C16_Witness ==
    /\ pc = "plan"
    /\ file_size >= MIN_FILE_SIZE_FOR_PARALLEL
    /\ last_split = <<"np", -3, TRUE>>
    /\ num_part = 3
    /\ chunk_size = -1

\* ---------------------------------------------------------------------------
\* The parallel loop
\* ---------------------------------------------------------------------------
\* download() was called for part i and returned: it succeeded, or gave up
\* on an HTTP error or without a handle, or used all its attempts
ProcessedToCompletion(i) ==
    /\ log[i].done
    /\ log[i].last \in {"ok", "http", "nocurl"} \/ log[i].n = NUM_TRY_DOWNLOAD

\* the run is past the parallel loop of mode 0
PastLoop == pc \in {"check", "merge", "merging", "cleanup"} /\ mode = 0

Holders(i) ==
    {p \in UNION {{<<t, k>> : k \in DOMAIN threads[t].jobs} : t \in DOMAIN threads} :
        threads[p[1]].jobs[p[2]].path = i}

\* C18: each part index belongs to exactly one worker and download() is
\* called for it exactly once: while the parallel loop runs, a part whose
\* download has not returned is in the list of exactly one worker, once, with
\* its own range, and a part whose download has returned is in no list; so no
\* two workers ever open, write or remove the same part path.
C18_ExclusivePartOwnership ==
    (pc = "workers" /\ mode = 0)
        => /\ DOMAIN log = PartPaths
           /\ \A i \in PartPaths :
                /\ Cardinality(Holders(i)) = (IF log[i].done THEN 0 ELSE 1)
                /\ \A p \in Holders(i) : threads[p[1]].jobs[p[2]] = PartJob(i)
           /\ \A t, u \in DOMAIN threads :
                (t # u /\ Busy(t) /\ Busy(u)) => CurJob(t).path # CurJob(u).path

\* two workers are both retrying, each on its own part, a third part is done
C18_Witness ==
    /\ pc = "workers"
    /\ mode = 0
    /\ num_part = 3
    /\ Len(threads) = 2
    /\ Busy(1) /\ Busy(2)
    /\ threads[1].i > 0 /\ threads[2].i > 0
    /\ CurJob(1).path = 1
    /\ CurJob(2).path = 2
    /\ log[0].done

\* ---------------------------------------------------------------------------
\* The ranges of the plan
\* ---------------------------------------------------------------------------
\* C20 (as claimed): for a size at or above the threshold and an accepted
\* part count or chunk size, every planned part i has a non-empty range that
\* lies within the file: 0 <= start_i <= end_i <= file_size - 1.
C20_EveryRangeNonEmpty ==
    (Planned /\ file_size >= MIN_FILE_SIZE_FOR_PARALLEL)
        => \A i \in PartPaths :
            /\ 0 <= PartStart(i)
            /\ PartStart(i) <= PartEnd(i)
            /\ PartEnd(i) <= file_size - 1

\* ---------------------------------------------------------------------------
\* The run that ends with the Missing verdict
\* ---------------------------------------------------------------------------
\* check_files returned 0 and main is at the removal step
EndsMissing == pc = "cleanup" /\ part_status = 0

\* C21 (as claimed): a run that ends with the Missing verdict leaves every
\* file as it was when check_files ran; in particular a file that was at the
\* output path before the run is neither removed nor modified.
C21_MissingLeavesFiles ==
    [][EndsMissing => disk' = disk]_vars

Next ==
    \/ OptNumThread
    \/ OptNumPart
    \/ OptChunkSize
    \/ OptSinglePart
    \/ OptMerge
    \/ ArgsDone
    \/ Probe
    \/ Plan
    \/ DownloadSmall
    \/ DownloadAll
    \/ DownloadSingle
    \/ \E t \in DOMAIN threads : DownloadNoCurl(t)
    \/ \E t \in DOMAIN threads : AttemptOpenFails(t)
    \/ \E t \in DOMAIN threads : AttemptTransferFails(t)
    \/ \E t \in DOMAIN threads : AttemptHttpError(t)
    \/ \E t \in DOMAIN threads : AttemptSucceeds(t)
    \/ Join
    \/ CheckThrows
    \/ Check
    \/ MergeCreateFails
    \/ MergeCreate
    \/ MergePart
    \/ MergeOpenFails
    \/ MergeDone
    \/ Cleanup

Spec == Init /\ [][Next]_vars

\* ---------------------------------------------------------------------------
\* Termination
\* ---------------------------------------------------------------------------
\* The process keeps running: whenever some step of main or of a worker is
\* possible, one is eventually taken (every probe and GET returns, a worker
\* that can go on is scheduled).
SpecFair == Spec /\ WF_vars(Next)

\* the parallel loop over more parts than the model follows
BeyondMaxParts == pc = "download" /\ mode = 0 /\ num_part > MaxParts

\* C22: every run eventually exits, in every mode and whatever attempts
\* succeed or fail (runs of the parallel loop are followed for up to MaxParts
\* parts).
C22_EveryRunExits == <>(pc = "exit" \/ BeyondMaxParts)

\* the full download of 3 parts has exited after attempts that failed
C22_Witness ==
    /\ pc = "exit"
    /\ asked_mode = 0
    /\ mode = 0
    /\ num_part = 3
    /\ faults = MaxFaults
    /\ \E i \in PartPaths : log[i].n = NUM_TRY_DOWNLOAD

\* ---------------------------------------------------------------------------
\* merge_files on its own: main has called it in a merge-only run (-np P -m)
\* over P parts an earlier run left behind, each empty or one byte long, after
\* check_files returned for them.
\* ---------------------------------------------------------------------------
MergeParts == 3

LargeServers == {s \in Servers : get_file_size(s) >= 20000000}

InitMerge ==
    \E P \in 1 .. MergeParts, srv \in LargeServers, out \in BOOLEAN :
        \E sizes \in [0 .. P - 1 -> StaleSizes] :
            /\ argi = 3
            /\ asked_mode = 2
            /\ split = "count"
            /\ last_split = <<>>
            /\ num_thread = DEFAULT_NUM_THREADS
            /\ num_part = P
            /\ chunk_size = PlanChunkByCount(srv.len, P)
            /\ mode = 2
            /\ part_index = -1
            /\ normal_exit = TRUE
            /\ server = srv
            /\ file_size = get_file_size(srv)
            /\ disk = InitDisk(sizes, out)
            /\ pc = "merge"
            /\ exit_code = -1
            /\ threads = <<>>
            /\ log = <<>>
            /\ requested = {}
            /\ probes = 1
            /\ faults = 0
            /\ part_status = check_files(disk, num_part, chunk_size, LastPartSize).status
            /\ merge_i = 0
            /\ out_good = TRUE

NextMerge ==
    \/ MergeCreateFails
    \/ MergeCreate
    \/ MergePart
    \/ MergeOpenFails
    \/ MergeDone
    \/ Cleanup

SpecMerge == InitMerge /\ [][NextMerge]_vars

\* the step in which merge_files gives up on part merge_i
MergeAborts == pc = "merging" /\ pc' = "cleanup" /\ ~normal_exit'

\* C19 (as claimed): merge_files opens the parts in ascending index order and
\* stops at the first part k it cannot open: it returns failure, nothing of the
\* parts k.. is appended, and the output then holds exactly the concatenation
\* of the parts 0..k-1.
C19_MergeAbortsAtFirstUnopened ==
    [][/\ (pc = "merging" /\ merge_i' # merge_i) => merge_i' = merge_i + 1
       /\ MergeAborts
            => /\ disk' = disk
               /\ merge_i' = merge_i
               /\ disk[OUT] = ConcatParts(disk, 0, merge_i)]_vars

====
